---- MODULE Spec2Model ----
(***************************************************************************)
(* A model of src/src/seq2seq.py: the Seq2Seq orchestrator (constructor,   *)
(* _forward, _backward, loss).  Tensors are symbolic: a tensor is a record *)
(* [id, shape] whose id is the expression that produced it, so that data   *)
(* flow (which state seeds which layer, which gradient is added where) and *)
(* shapes are both visible.  The layer primitives imported from `layers`   *)
(* are not part of the sources at hand; they are modelled from the design  *)
(* description (sections 4.2 - 4.8).                                       *)
(***************************************************************************)
EXTENDS Integers, Sequences, FiniteSets, TLC

\* ------------------------------------------------------------- bounds
MaxLayers == 2

Dims == {1, 2}
HiddenDims == {2}
Tokens == {0, 1}
CellTypes == {"rnn", "lstm", "gru"}
LayerCounts == (-1) .. MaxLayers
SrcSeqLens == {1, 2}
TrgSeqLens == {1}
TrgLens == {2, 3}

VARIABLES status, self, params, held, out

vars == <<status, self, params, held, out>>

\* ------------------------------------------------------------- tensors
Tensor(id, shape) == [id |-> id, shape |-> shape]

NoTensor == Tensor("none", <<>>)

Zeros(shape) == Tensor("0", shape)

\* np.random.randn(r, c) / np.sqrt(fan_in): a fresh random matrix, named
\* after the draw.
Randn(name, r, c) == Tensor(name, <<r, c>>)

Max(a, b) == IF a >= b THEN a ELSE b

Min(a, b) == IF a <= b THEN a ELSE b

\* Python's x[-1] on an axis of length n (0-based position).
LastIndex(n) == n - 1

\* h[:, -1, :] of a (N, T, D) tensor.
LastStep(h) ==
    Tensor(h.id \o "[:," \o ToString(LastIndex(h.shape[2])) \o ",:]",
           <<h.shape[1], h.shape[3]>>)

\* An integer matrix (N, T) as a sequence of N rows of T tokens.
NRows(m) == Len(m)

NCols(m) == IF Len(m) = 0 THEN 0 ELSE Len(m[1])

ConstRow(T, v) == [t \in 1 .. T |-> v]

\* ------------------------------------------------------------- dict
EmptyDict == [k \in {} |-> NoTensor]

\* d[k] = v
Put(d, k, v) == (k :> v) @@ d

\* "Wx_%d_enc" % i
Key(prefix, i, suffix) == prefix \o "_" \o ToString(i) \o "_" \o suffix

\* ------------------------------------------------------------- __init__
\* {"lstm": 4, "rnn": 1}
DimMulTable == [lstm |-> 4, rnn |-> 1]

KnownCells == DOMAIN DimMulTable

\* A lookup that falls back to the plain cell's multiplier.
DimMulDefaulting(cell_type) ==
    IF cell_type \in KnownCells THEN DimMulTable[cell_type] ELSE 1

\* dim_mul = {"lstm": 4, "rnn": 1}[cell_type]; 0 stands for the KeyError.
DimMul(cell_type) ==
    IF cell_type \in KnownCells THEN DimMulTable[cell_type] ELSE 0

\* One iteration of the loop of lines 63-70.
InitLayer(p, i, H, dm) ==
    LET p1 == Put(p, Key("Wx", i, "enc"), Randn(Key("Wx", i, "enc"), H, dm * H))
        p2 == Put(p1, Key("Wh", i, "enc"), Randn(Key("Wh", i, "enc"), H, dm * H))
        p3 == Put(p2, Key("b", i, "enc"), Tensor(Key("b", i, "enc"), <<dm * H>>))
        p4 == Put(p3, Key("Wx", i, "dec"), Randn(Key("Wx", i, "dec"), H, dm * H))
        p5 == Put(p4, Key("Wh", i, "dec"), Randn(Key("Wh", i, "dec"), H, dm * H))
    IN  Put(p5, Key("b", i, "dec"), Tensor(Key("b", i, "dec"), <<dm * H>>))

RECURSIVE InitLayers(_, _, _, _, _)
\* for i in range(n_layers)
InitLayers(p, i, n, H, dm) ==
    IF i >= n THEN p ELSE InitLayers(InitLayer(p, i, H, dm), i + 1, n, H, dm)

\* dim_mul = 2 if attention else 1
OutMul(attention) == IF attention THEN 2 ELSE 1

\* The constructor: [err, params].  When the cell-type lookup raises, params
\* holds what had been created until then.
Construct(a) ==
    LET H  == a.hidden_dim
        p0 == Put(Put(EmptyDict,
                      "W_embed_enc",
                      Randn("W_embed_enc", a.src_vocab_size, a.src_embed_dim)),
                  "W_embed_dec",
                  Randn("W_embed_dec", a.trg_vocab_size, a.trg_embed_dim))
        dm == DimMul(a.cell_type)
        p1 == InitLayers(p0, 0, a.n_layers, H, dm)
        p2 == Put(Put(p1,
                      "Wx_0_enc", Randn("Wx_0_enc", a.src_embed_dim, dm * H)),
                  "Wx_0_dec", Randn("Wx_0_dec", a.trg_embed_dim, dm * H))
        om == OutMul(a.attention)
        p3 == Put(Put(p2,
                      "W_out_dec", Randn("W_out_dec", om * H, a.trg_vocab_size)),
                  "b_out_dec", Tensor("b_out_dec", <<a.trg_vocab_size>>))
    IN  IF dm = 0
        THEN [err |-> "KeyError", params |-> p0]
        ELSE [err |-> "none", params |-> p3]

\* ------------------------------------------------------------- layers
\* word_embedding_forward(x, W): row lookup; caches the ids and the row count.
word_embedding_forward(x, W) ==
    [out   |-> Tensor("emb(" \o W.id \o ")", <<NRows(x), NCols(x), W.shape[2]>>),
     cache |-> [x |-> x, V |-> W.shape[1]]]

\* One layer run over the whole sequence (recurrent_forward / lstm_forward):
\* the output, named after the layer's input weight, has h0's width; the
\* cache keeps the inputs and the weights.
LayerForward(cell, x, h0, Wx, Wh, b) ==
    IF x.shape[3] # Wx.shape[1] \/ h0.shape[2] # Wh.shape[1]
    THEN [err |-> "ValueError", h |-> NoTensor, cache |-> <<>>]
    ELSE [err   |-> "none",
          h     |-> Tensor(cell \o ":" \o Wx.id,
                           <<x.shape[1], x.shape[2], h0.shape[2]>>),
          cache |-> [cell |-> cell, x |-> x, h0 |-> h0,
                     Wx |-> Wx.id, Wh |-> Wh.id, b |-> b.id]]

recurrent_forward(x, h0, Wx, Wh, b) == LayerForward("rnn", x, h0, Wx, Wh, b)

lstm_forward(x, h0, Wx, Wh, b) == LayerForward("lstm", x, h0, Wx, Wh, b)

\* temporal_attention_forward(h_dec, h_enc): inner products over the hidden
\* axis, softmax over encoder time, weighted sum of encoder states.
temporal_attention_forward(h_dec, h_enc) ==
    IF h_dec.shape[3] # h_enc.shape[3] \/ h_dec.shape[1] # h_enc.shape[1]
    THEN [err |-> "ValueError", out |-> NoTensor, cache |-> <<>>]
    ELSE [err   |-> "none",
          out   |-> Tensor("att",
                           <<h_dec.shape[1], h_dec.shape[2], h_enc.shape[3]>>),
          cache |-> [h_dec |-> h_dec, h_enc |-> h_enc]]

\* temporal_affine_forward(x, W, b)
temporal_affine_forward(x, W, b) ==
    IF x.shape[3] # W.shape[1]
    THEN [err |-> "ValueError", out |-> NoTensor, cache |-> <<>>]
    ELSE [err   |-> "none",
          out   |-> Tensor("scores", <<x.shape[1], x.shape[2], W.shape[2]>>),
          cache |-> [x |-> x, W |-> W.id, b |-> b.id]]

\* np.append(a, b, axis=-1)
AppendLastAxis(a, b) ==
    Tensor("cat(" \o a.id \o "," \o b.id \o ")",
           <<a.shape[1], a.shape[2], a.shape[3] + b.shape[3]>>)

\* ------------------------------------------------------------- _forward
\* The state of one _forward call as it runs: the locals of the method
\* (h0, h_enc, h_dec, z, the caches, dec_out, scores), err (the exception
\* raised, "none" while running) and, for the properties, what each layer
\* was seeded with (enc_h0s, dec_h0s), what each encoder layer put out
\* (enc_outs) and what reached the projection (proj_in).
NoCaches ==
    [enc_embed_cache |-> <<>>, enc_caches |-> <<>>, dec_embed_cache |-> <<>>,
     dec_caches |-> <<>>, att_cache |-> <<>>, dec_out_cache |-> <<>>]

ForwardStart(N) ==
    [err |-> "none", N |-> N, h0 |-> NoTensor, h_enc |-> NoTensor,
     h_dec |-> NoTensor, z |-> <<>>, caches |-> NoCaches, att_out |-> NoTensor,
     proj_in |-> NoTensor, scores |-> NoTensor,
     enc_h0s |-> <<>>, enc_outs |-> <<>>, dec_h0s |-> <<>>]

Raise(st, e) == [st EXCEPT !.err = e]

\* The if / elif on self.cell_type; with neither branch taken `cache` is
\* unbound when it is appended.
CellForward(cell_type, x, h0, Wx, Wh, b) ==
    IF cell_type = "rnn" THEN recurrent_forward(x, h0, Wx, Wh, b)
    ELSE IF cell_type = "lstm" THEN lstm_forward(x, h0, Wx, Wh, b)
    ELSE [err |-> "UnboundLocalError", h |-> NoTensor, cache |-> <<>>]

\* z[:, i, :] = v
SetSlot(z, i, v) == [z EXCEPT ![i + 1] = v]

\* A context hand-off that keeps only the top layer's final state.
ContextSlotShared(i, n) == n - 1

\* The slot of z the encoder writes after layer i (line 114).
ContextSlot(i, n) == i

\* Lines 95-104: embed the source, allocate z, h0 = zeros.
EncoderSetup(s, p, src, st) ==
    IF s.n_layers < 0 THEN Raise(st, "ValueError")
    ELSE [st EXCEPT
            !.h_enc = word_embedding_forward(src, p["W_embed_enc"]).out,
            !.caches.enc_embed_cache = word_embedding_forward(src, p["W_embed_enc"]).cache,
            !.z = [k \in 1 .. s.n_layers |-> Tensor("uninit", <<st.N, s.hidden_dim>>)],
            !.h0 = Zeros(<<st.N, s.hidden_dim>>)]

\* Lines 113-114, after the cell of encoder layer i returned r.
EncoderStep(s, i, st, r) ==
    IF r.err # "none" THEN Raise(st, r.err)
    ELSE [st EXCEPT
            !.h_enc = r.h,
            !.caches.enc_caches = Append(@, r.cache),
            !.z = SetSlot(@, ContextSlot(i, s.n_layers), LastStep(r.h)),
            !.enc_h0s = Append(@, st.h0),
            !.enc_outs = Append(@, r.h)]

RECURSIVE EncoderLoop(_, _, _, _)
\* for i in range(self.n_layers), lines 106-114.
EncoderLoop(s, p, i, st) ==
    IF i >= s.n_layers \/ st.err # "none" THEN st
    ELSE EncoderLoop(s, p, i + 1,
           EncoderStep(s, i, st,
             CellForward(s.cell_type, st.h_enc, st.h0,
                         p[Key("Wx", i, "enc")], p[Key("Wh", i, "enc")],
                         p[Key("b", i, "enc")])))

\* Lines 118-122: embed the target.
DecoderSetup(s, p, trg, st) ==
    IF st.err # "none" THEN st
    ELSE [st EXCEPT
            !.h_dec = word_embedding_forward(trg, p["W_embed_dec"]).out,
            !.caches.dec_embed_cache = word_embedding_forward(trg, p["W_embed_dec"]).cache]

\* Line 124: h0 = z[:, i, :].reshape(N, H)
DecoderSeed(s, i, st) == [st EXCEPT !.h0 = st.z[i + 1]]

\* Line 131, after the cell of decoder layer i returned r.
DecoderStep(s, i, st, r) ==
    IF r.err # "none" THEN Raise(st, r.err)
    ELSE [st EXCEPT
            !.h_dec = r.h,
            !.caches.dec_caches = Append(@, r.cache),
            !.dec_h0s = Append(@, st.h0)]

\* Lines 124-131 for one i, from the state in which h0 has been set.
DecoderLayer(s, p, i, st) ==
    DecoderStep(s, i, st,
      CellForward(s.cell_type, st.h_dec, st.h0,
                  p[Key("Wx", i, "dec")], p[Key("Wh", i, "dec")],
                  p[Key("b", i, "dec")]))

RECURSIVE DecoderLoop(_, _, _, _)
\* for i in range(self.n_layers), lines 123-131.
DecoderLoop(s, p, i, st) ==
    IF i >= s.n_layers \/ st.err # "none" THEN st
    ELSE DecoderLoop(s, p, i + 1, DecoderLayer(s, p, i, DecoderSeed(s, i, st)))

\* Line 134 with its result r: the attention output is computed whether or
\* not the flag is set.
AttentionStep(st, r) ==
    IF r.err # "none" THEN Raise(st, r.err)
    ELSE [st EXCEPT !.att_out = r.out, !.caches.att_cache = r.cache]

AttentionForward(st) ==
    IF st.err # "none" THEN st
    ELSE AttentionStep(st, temporal_attention_forward(st.h_dec, st.h_enc))

\* Lines 137-140: dec_out.
DecOut(s, st) ==
    IF st.err # "none" THEN st
    ELSE [st EXCEPT !.proj_in = IF s.attention
                                THEN AppendLastAxis(st.h_dec, st.att_out)
                                ELSE st.h_dec]

\* Line 143 with its result r.
ProjectStep(st, r) ==
    IF r.err # "none" THEN Raise(st, r.err)
    ELSE [st EXCEPT !.scores = r.out, !.caches.dec_out_cache = r.cache]

Project(p, st) ==
    IF st.err # "none" THEN st
    ELSE ProjectStep(st, temporal_affine_forward(st.proj_in, p["W_out_dec"],
                                                 p["b_out_dec"]))

\* What _forward(src, trg) gives back: err and, when it is "none", scores
\* and caches; the other fields are kept for the properties.
ForwardResult(st) ==
    [err      |-> st.err,
     scores   |-> st.scores,
     caches   |-> st.caches,
     proj_in  |-> st.proj_in,
     enc_h0s  |-> st.enc_h0s,
     enc_outs |-> st.enc_outs,
     dec_h0s  |-> st.dec_h0s]

Forward(s, p, src, trg) ==
    ForwardResult(
      Project(p,
        DecOut(s,
          AttentionForward(
            DecoderLoop(s, p, 0,
              DecoderSetup(s, p, trg,
                EncoderLoop(s, p, 0,
                  EncoderSetup(s, p, src, ForwardStart(NRows(src))))))))))

\* ------------------------------------------------------------- gradients
\* A gradient tensor: [id, shape, adds]; adds lists the in-place additions
\* made to single timesteps, each [t, terms] (0-based timestep, the ids
\* summed into it).
Grad(id, shape) == [id |-> id, shape |-> shape, adds |-> <<>>]

NoGrad == Grad("none", <<>>)

\* temporal_affine_backward(dout, cache)
temporal_affine_backward(dout, cache) ==
    IF Len(dout.shape) # 3 \/ dout.shape[1] # cache.x.shape[1]
       \/ dout.shape[2] # cache.x.shape[2]
    THEN [err |-> "ValueError", dx |-> NoGrad, dW |-> NoGrad, db |-> NoGrad]
    ELSE [err |-> "none",
          dx  |-> Grad("d_dec_out", cache.x.shape),
          dW  |-> Grad("d(" \o cache.W \o ")", <<cache.x.shape[3], dout.shape[3]>>),
          db  |-> Grad("d(" \o cache.b \o ")", <<dout.shape[3]>>)]

\* temporal_attention_backward(dout, cache)
temporal_attention_backward(dout, cache) ==
    IF dout.shape # <<cache.h_dec.shape[1], cache.h_dec.shape[2], cache.h_enc.shape[3]>>
    THEN [err |-> "ValueError", dh_dec |-> NoGrad, dh_enc |-> NoGrad]
    ELSE [err    |-> "none",
          dh_dec |-> Grad("att_dh_dec", cache.h_dec.shape),
          dh_enc |-> Grad("att_dh_enc", cache.h_enc.shape)]

\* What a layer primitive may do with an upstream gradient whose shape is not
\* the shape of its forward output: the primitives are not at hand, so both
\* outcomes are kept.
MismatchOutcomes == {"none", "ValueError"}

\* recurrent_backward / lstm_backward (dh, cache): gradients of the layer's
\* input, initial state and the three parameters the cache names.
LayerBackward(dh, cache, mm) ==
    LET fits == dh.shape = <<cache.x.shape[1], cache.x.shape[2], cache.h0.shape[2]>>
        e    == IF fits THEN "none" ELSE mm
    IN  [err |-> e,
         dx  |-> Grad("dx(" \o cache.Wx \o ")", cache.x.shape),
         dh0 |-> Grad("dh0(" \o cache.Wx \o ")", cache.h0.shape),
         dWx |-> Grad("d(" \o cache.Wx \o ")", <<>>),
         dWh |-> Grad("d(" \o cache.Wh \o ")", <<>>),
         db  |-> Grad("d(" \o cache.b \o ")", <<>>)]

recurrent_backward(dh, cache, mm) == LayerBackward(dh, cache, mm)

lstm_backward(dh, cache, mm) == LayerBackward(dh, cache, mm)

\* word_embedding_backward(dout, cache): scatter-add into a (V, D) matrix.
word_embedding_backward(dout, cache, mm) ==
    LET fits == Len(dout.shape) = 3 /\ dout.shape[1] = NRows(cache.x)
                /\ dout.shape[2] = NCols(cache.x)
    IN  [err |-> IF fits THEN "none" ELSE mm,
         dW  |-> Grad("dW_embed(" \o dout.id \o ")",
                      <<cache.V, IF Len(dout.shape) = 3 THEN dout.shape[3] ELSE 0>>)]

\* a += b on whole tensors
AddInPlace(a, b) == [a EXCEPT !.id = "(" \o a.id \o "+" \o b.id \o ")"]

\* d[:, :, :H]
SliceHead(d, H) ==
    Grad(d.id \o "[:,:,:H]", <<d.shape[1], d.shape[2], Min(H, d.shape[3])>>)

\* d[:, :, H:]
SliceTail(d, H) ==
    Grad(d.id \o "[:,:,H:]", <<d.shape[1], d.shape[2], Max(d.shape[3] - H, 0)>>)

\* ------------------------------------------------------------- _backward
\* list.pop(): the last element leaves the list.
PopIndex(l) == Len(l)

Pop(l) ==
    [item |-> l[PopIndex(l)],
     rest |-> [j \in 1 .. (Len(l) - 1) |-> IF j < PopIndex(l) THEN l[j] ELSE l[j + 1]]]

\* The if / elif on self.cell_type around the two backward primitives.
CellBackward(cell_type, dh, cache, mm) ==
    IF cell_type = "rnn" THEN recurrent_backward(dh, cache, mm)
    ELSE IF cell_type = "lstm" THEN lstm_backward(dh, cache, mm)
    ELSE [err |-> "UnboundLocalError", dx |-> NoGrad, dh0 |-> NoGrad,
          dWx |-> NoGrad, dWh |-> NoGrad, db |-> NoGrad]

\* The cache argument of the branch taken: x_caches.pop() in either branch,
\* nothing when neither is taken.
PopOrKeep(cell_type, l) ==
    IF cell_type \in {"rnn", "lstm"} THEN Pop(l) ELSE [item |-> <<>>, rest |-> l]

Stage(name) == [stage |-> name, layer |-> -1, cache |-> ""]

\* The state of one _backward call as it runs: the locals of the method, the
\* two per-layer cache lists (popped in place), err and, for the properties,
\* the stages run so far (log) and the gradient that entered each encoder
\* layer (enc_ins).
BackwardStart(dscores, caches) ==
    [err        |-> IF Len(dscores.shape) = 3 THEN "none" ELSE "ValueError",
     N          |-> IF Len(dscores.shape) = 3 THEN dscores.shape[1] ELSE 0,
     d_dec_out  |-> NoGrad,
     dh_dec     |-> NoGrad,
     dh_enc     |-> NoGrad,
     dz         |-> <<>>,
     grads      |-> EmptyDict,
     enc_caches |-> caches.enc_caches,
     dec_caches |-> caches.dec_caches,
     log        |-> <<>>,
     enc_ins    |-> <<>>]

\* Lines 165-168 with the result r of temporal_affine_backward.
AffineBackStep(st, r) ==
    IF r.err # "none" THEN Raise(st, r.err)
    ELSE [st EXCEPT
            !.d_dec_out = r.dx,
            !.grads = Put(Put(@, "W_out_dec", r.dW), "b_out_dec", r.db),
            !.log = Append(@, Stage("output_projection"))]

AffineBack(dscores, caches, st) ==
    IF st.err # "none" THEN st
    ELSE AffineBackStep(st, temporal_affine_backward(dscores, caches.dec_out_cache))

\* Lines 172-175 with the head slice and the result r of
\* temporal_attention_backward.
AttentionBackStep(st, head, r) ==
    IF r.err # "none" \/ head.shape # r.dh_dec.shape THEN Raise(st, "ValueError")
    ELSE [st EXCEPT
            !.dh_dec = AddInPlace(head, r.dh_dec),
            !.dh_enc = r.dh_enc,
            !.log = Append(@, Stage("attention"))]

\* Lines 171-178.
AttentionBack(s, caches, st) ==
    IF st.err # "none" THEN st
    ELSE IF s.attention
    THEN AttentionBackStep(st, SliceHead(st.d_dec_out, s.hidden_dim),
           temporal_attention_backward(SliceTail(st.d_dec_out, s.hidden_dim),
                                       caches.att_cache))
    ELSE [st EXCEPT
            !.dh_dec = st.d_dec_out,
            !.dh_enc = Grad("0", <<st.N, s.src_seq_len, s.hidden_dim>>)]

\* Line 181: dz = np.zeros((N, self.n_layers, H)); a slot lists what has been
\* added to it.
ContextGradInit(s, st) ==
    IF st.err # "none" THEN st
    ELSE IF s.n_layers < 0 THEN Raise(st, "ValueError")
    ELSE [st EXCEPT !.dz = [k \in 1 .. s.n_layers |-> <<>>]]

\* dz[:, i, :] += dh0
Accumulate(dz, i, dh0) == [dz EXCEPT ![i + 1] = Append(@, dh0.id)]

\* Lines 188-192, after the backward of decoder layer i returned r on the
\* popped cache pp.item.
DecoderBackStep(s, i, st, pp, r) ==
    IF r.err # "none" THEN [st EXCEPT !.err = r.err, !.dec_caches = pp.rest]
    ELSE [st EXCEPT
            !.dh_dec = r.dx,
            !.dec_caches = pp.rest,
            !.grads = Put(Put(Put(@, Key("Wx", i, "dec"), r.dWx),
                              Key("Wh", i, "dec"), r.dWh),
                          Key("b", i, "dec"), r.db),
            !.dz = Accumulate(@, i, r.dh0),
            !.log = Append(@, [stage |-> "decoder", layer |-> i, cache |-> pp.item.Wx])]

DecoderBackLayer(s, i, mm, st, pp) ==
    DecoderBackStep(s, i, st, pp, CellBackward(s.cell_type, st.dh_dec, pp.item, mm))

RECURSIVE DecoderBackLoop(_, _, _, _)
\* for i in range(self.n_layers - 1, -1, -1), lines 182-192.
DecoderBackLoop(s, i, mm, st) ==
    IF i < 0 \/ st.err # "none" THEN st
    ELSE IF s.cell_type \in {"rnn", "lstm"} /\ st.dec_caches = <<>>
    THEN Raise(st, "IndexError")
    ELSE DecoderBackLoop(s, i - 1, mm,
           DecoderBackLayer(s, i, mm, st, PopOrKeep(s.cell_type, st.dec_caches)))

\* Lines 194-195 with the result r of word_embedding_backward.
DecEmbedBackStep(st, r) ==
    IF r.err # "none" THEN Raise(st, r.err)
    ELSE [st EXCEPT
            !.grads = Put(@, "W_embed_dec", r.dW),
            !.log = Append(@, Stage("decoder_embedding"))]

DecEmbedBack(caches, mm, st) ==
    IF st.err # "none" THEN st
    ELSE DecEmbedBackStep(st,
           word_embedding_backward(st.dh_dec, caches.dec_embed_cache, mm))

\* A hand-off that pairs encoder layer i with the decoder layer at the same
\* distance from the other end of the stack.
ContextGradSlotMirrored(i, n) == n - 1 - i

\* The slot of dz added into the gradient entering encoder layer i (line 199).
ContextGradSlot(i, n) == i

\* The timestep of dh_enc the context gradient is added to: dh_enc[:, -1, :].
HandOffStep(dh) == LastIndex(dh.shape[2])

\* dh_enc[:, -1, :] += dz[:, i, :]
HandOff(dh_enc, dz, i, n) ==
    [dh_enc EXCEPT !.adds = Append(@, [t     |-> HandOffStep(dh_enc),
                                       terms |-> dz[ContextGradSlot(i, n) + 1]])]

\* Lines 206-208, after the backward of encoder layer i returned r on the
\* popped cache pp.item and the upstream gradient dh.
EncoderBackStep(s, i, st, pp, dh, r) ==
    IF r.err # "none" THEN [st EXCEPT !.err = r.err, !.enc_caches = pp.rest]
    ELSE [st EXCEPT
            !.dh_enc = r.dx,
            !.enc_caches = pp.rest,
            !.grads = Put(Put(Put(@, Key("Wx", i, "enc"), r.dWx),
                              Key("Wh", i, "enc"), r.dWh),
                          Key("b", i, "enc"), r.db),
            !.log = Append(@, [stage |-> "encoder", layer |-> i, cache |-> pp.item.Wx]),
            !.enc_ins = Append(@, [layer |-> i, dh |-> dh])]

EncoderBackLayer(s, i, mm, st, pp, dh) ==
    EncoderBackStep(s, i, st, pp, dh, CellBackward(s.cell_type, dh, pp.item, mm))

RECURSIVE EncoderBackLoop(_, _, _, _)
\* for i in range(self.n_layers - 1, -1, -1), lines 198-208.
EncoderBackLoop(s, i, mm, st) ==
    IF i < 0 \/ st.err # "none" THEN st
    ELSE IF s.cell_type \in {"rnn", "lstm"} /\ st.enc_caches = <<>>
    THEN Raise(st, "IndexError")
    ELSE EncoderBackLoop(s, i - 1, mm,
           EncoderBackLayer(s, i, mm, st, PopOrKeep(s.cell_type, st.enc_caches),
                            HandOff(st.dh_enc, st.dz, i, s.n_layers)))

\* An encoder embedding whose gradient is computed and not stored.
EncEmbedBackStepUnstored(st, r) ==
    IF r.err # "none" THEN Raise(st, r.err)
    ELSE [st EXCEPT !.log = Append(@, Stage("encoder_embedding"))]

\* Lines 210-211 with the result r of word_embedding_backward.
EncEmbedBackStep(st, r) ==
    IF r.err # "none" THEN Raise(st, r.err)
    ELSE [st EXCEPT
            !.grads = Put(@, "W_embed_enc", r.dW),
            !.log = Append(@, Stage("encoder_embedding"))]

EncEmbedBack(caches, mm, st) ==
    IF st.err # "none" THEN st
    ELSE EncEmbedBackStep(st,
           word_embedding_backward(st.dh_enc, caches.enc_embed_cache, mm))

\* What _backward(dscores, caches) gives back and leaves behind: err, grads
\* (returned when err is "none") and the two per-layer cache lists as the
\* call leaves them; log, dz and enc_ins are kept for the properties.
BackwardResult(st) ==
    [err        |-> st.err,
     grads      |-> st.grads,
     enc_caches |-> st.enc_caches,
     dec_caches |-> st.dec_caches,
     log        |-> st.log,
     dz         |-> st.dz,
     enc_ins    |-> st.enc_ins]

Backward(s, dscores, caches, mm) ==
    BackwardResult(
      EncEmbedBack(caches, mm,
        EncoderBackLoop(s, s.n_layers - 1, mm,
          DecEmbedBack(caches, mm,
            DecoderBackLoop(s, s.n_layers - 1, mm,
              ContextGradInit(s,
                AttentionBack(s, caches,
                  AffineBack(dscores, caches,
                    BackwardStart(dscores, caches)))))))))

\* ------------------------------------------------------------- loss
\* A split that feeds the whole target to the decoder.
DropLastColKeepAll(m) == m

\* trg[:, :-1]
DropLastCol(m) == [n \in 1 .. Len(m) |-> SubSeq(m[n], 1, Len(m[n]) - 1)]

\* trg[:, 1:]
DropFirstCol(m) == [n \in 1 .. Len(m) |-> SubSeq(m[n], 2, Len(m[n]))]

\* trg_out != self.null_idx
NotEqual(m, v) == [n \in 1 .. Len(m) |-> [t \in 1 .. Len(m[n]) |-> m[n][t] # v]]

RECURSIVE RowStr(_)
RowStr(row) ==
    IF Len(row) = 0 THEN ""
    ELSE ToString(row[1]) \o (IF Len(row) = 1 THEN "" ELSE " " \o RowStr(Tail(row)))

RECURSIVE MatStr(_)
\* The printed form of a matrix: what a value computed from it is named by.
MatStr(m) ==
    IF Len(m) = 0 THEN ""
    ELSE "[" \o RowStr(m[1]) \o "]" \o MatStr(Tail(m))

\* temporal_cross_entropy_loss(x, y, mask): the masked mean loss and its
\* gradient with respect to the scores.
temporal_cross_entropy_loss(x, y, mask) ==
    [loss    |-> "xent(" \o x.id \o "," \o MatStr(y) \o "," \o MatStr(mask) \o ")",
     dscores |-> Grad("dxent(" \o x.id \o "," \o MatStr(y) \o "," \o MatStr(mask) \o ")",
                      x.shape)]

NoBackward ==
    [err |-> "none", grads |-> EmptyDict, enc_caches |-> <<>>, dec_caches |-> <<>>,
     log |-> <<>>, dz |-> <<>>, enc_ins |-> <<>>]

\* Lines 227-228.
LossSplit(src, trg) ==
    [src |-> src, trg_in |-> DropLastCol(trg), trg_out |-> DropFirstCol(trg),
     fwd |-> <<>>, mask |-> <<>>, ce |-> <<>>, bwd |-> NoBackward]

\* Line 231.
LossForward(s, p, a) == [a EXCEPT !.fwd = Forward(s, p, a.src, a.trg_in)]

\* Line 234.
LossMask(s, a) ==
    IF a.fwd.err # "none" THEN a
    ELSE [a EXCEPT !.mask = NotEqual(a.trg_out, s.null_idx)]

\* Line 235.
LossCriterion(a) ==
    IF a.fwd.err # "none" THEN a
    ELSE [a EXCEPT !.ce = temporal_cross_entropy_loss(a.fwd.scores, a.trg_out, a.mask)]

\* Line 238.
LossBackward(s, mm, a) ==
    IF a.fwd.err # "none" THEN a
    ELSE [a EXCEPT !.bwd = Backward(s, a.ce.dscores, a.fwd.caches, mm)]

\* What loss(src, trg) gives back: err and, when it is "none", loss and
\* grads; the rest records what each of the three stages was called with.
LossResult(a) ==
    IF a.fwd.err # "none"
    THEN [err |-> a.fwd.err, loss |-> "none", grads |-> EmptyDict,
          fwd_args |-> [src |-> a.src, trg |-> a.trg_in], fwd |-> a.fwd,
          loss_args |-> <<>>, bwd_args |-> <<>>, bwd |-> a.bwd]
    ELSE [err |-> a.bwd.err,
          loss |-> IF a.bwd.err = "none" THEN a.ce.loss ELSE "none",
          grads |-> IF a.bwd.err = "none" THEN a.bwd.grads ELSE EmptyDict,
          fwd_args |-> [src |-> a.src, trg |-> a.trg_in], fwd |-> a.fwd,
          loss_args |-> [x |-> a.fwd.scores, y |-> a.trg_out, mask |-> a.mask],
          bwd_args |-> [dscores |-> a.ce.dscores, caches |-> a.fwd.caches],
          bwd |-> a.bwd]

Loss(s, p, src, trg, mm) ==
    LossResult(
      LossBackward(s, mm,
        LossCriterion(
          LossMask(s,
            LossForward(s, p, LossSplit(src, trg))))))

\* ------------------------------------------------------------- inputs
\* Constructor arguments.
Args ==
    [src_seq_len    : SrcSeqLens,
     src_vocab_size : {Cardinality(Tokens)},
     src_embed_dim  : Dims,
     trg_seq_len    : TrgSeqLens,
     trg_vocab_size : {Cardinality(Tokens)},
     trg_embed_dim  : Dims,
     hidden_dim     : HiddenDims,
     null_idx       : Tokens,
     attention      : BOOLEAN,
     n_layers       : LayerCounts,
     cell_type      : CellTypes]

BatchSizes == {1}

\* Source batches: only the shape of src is read.
SrcInputs == {[n \in 1 .. N |-> ConstRow(T, 0)] : N \in BatchSizes, T \in SrcSeqLens}

\* Decoder inputs of direct _forward calls.
DecInputs == SrcInputs

\* Target batches of loss calls: trg_seq_len + 1 columns when well-formed.
TrgInputs ==
    UNION {[1 .. N -> [1 .. L -> Tokens]] : N \in BatchSizes, L \in TrgLens}

\* The one place a gradient can reach a backward primitive with a shape other
\* than its forward output's: without attention dh_enc is made with
\* self.src_seq_len timesteps, whatever the length of src was.
MisfitOutcomes(s, src) ==
    IF ~s.attention /\ NCols(src) # s.src_seq_len THEN MismatchOutcomes ELSE {"none"}

NoHeld == [has |-> FALSE, scores |-> NoTensor, caches |-> NoCaches, nback |-> 0]

\* ------------------------------------------------------------- actions
\* status: "new" before the constructor has run, then "ready" or "raised".
\* self, params: the object's attributes.  held: the (scores, caches) pair
\* the caller got from its last _forward.  out: what the call that has just
\* returned gave back (Idle once the caller has taken it).
Idle == [op |-> "none", err |-> "none"]

Init ==
    /\ self \in Args
    /\ status = "new"
    /\ params = EmptyDict
    /\ held = NoHeld
    /\ out = Idle

ConstructOut(r) == [op |-> "__init__", err |-> r.err]

ConstructEffect(r) ==
    /\ status' = IF r.err = "none" THEN "ready" ELSE "raised"
    /\ params' = r.params
    /\ out' = ConstructOut(r)

\* Seq2Seq(...)
CallConstruct ==
    /\ status = "new"
    /\ out = Idle
    /\ ConstructEffect(Construct(self))
    /\ UNCHANGED <<self, held>>

ForwardEffect(src, trg, r) ==
    /\ held' = IF r.err = "none"
               THEN [has |-> TRUE, scores |-> r.scores, caches |-> r.caches, nback |-> 0]
               ELSE held
    /\ out' = [op |-> "_forward", err |-> r.err, src |-> src, trg |-> trg, r |-> r]

\* scores, caches = model._forward(src, trg)
CallForward ==
    /\ status = "ready"
    /\ out = Idle
    /\ \E src \in SrcInputs, trg \in DecInputs :
         /\ NRows(src) = NRows(trg)
         /\ ForwardEffect(src, trg, Forward(self, params, src, trg))
    /\ UNCHANGED <<status, self, params>>

\* A _backward that writes its gradients into self.params.
BackwardEffectInPlace(r) ==
    /\ held' = [held EXCEPT !.caches.enc_caches = r.enc_caches,
                            !.caches.dec_caches = r.dec_caches,
                            !.nback = Min(@ + 1, 2)]
    /\ params' = r.grads @@ params
    /\ out' = [op |-> "_backward", err |-> r.err, nback |-> held.nback, r |-> r]

BackwardEffect(r) ==
    /\ params' = params
    /\ held' = [held EXCEPT !.caches.enc_caches = r.enc_caches,
                            !.caches.dec_caches = r.dec_caches,
                            !.nback = Min(@ + 1, 2)]
    /\ out' = [op |-> "_backward", err |-> r.err, nback |-> held.nback, r |-> r]

\* grads = model._backward(dscores, caches), on the tuple the caller holds
CallBackward ==
    /\ status = "ready"
    /\ out = Idle
    /\ held.has
    /\ \E mm \in MisfitOutcomes(self, held.caches.enc_embed_cache.x) :
         BackwardEffect(Backward(self, Grad("dscores", held.scores.shape),
                                 held.caches, mm))
    /\ UNCHANGED <<status, self>>

LossEffect(src, trg, r) ==
    out' = [op |-> "loss", err |-> r.err, src |-> src, trg |-> trg, r |-> r]

\* loss, grads = model.loss(src, trg)
CallLoss ==
    /\ status = "ready"
    /\ out = Idle
    /\ \E src \in SrcInputs, trg \in TrgInputs :
         /\ NRows(src) = NRows(trg)
         /\ \E mm \in MisfitOutcomes(self, src) :
              LossEffect(src, trg, Loss(self, params, src, trg, mm))
    /\ UNCHANGED <<status, self, params, held>>

\* The caller takes the returned value (or catches the exception) and goes on.
Receive ==
    /\ out # Idle
    /\ out' = Idle
    /\ UNCHANGED <<status, self, params, held>>

Next == CallConstruct \/ CallForward \/ CallBackward \/ CallLoss \/ Receive

Spec == Init /\ [][Next]_vars

\* ------------------------------------------------------------- properties
Supported == {"rnn", "lstm"}

\* The _forward whose result is in out, run directly or by loss.
HasForward == out.op = "_forward" \/ out.op = "loss"

TheForward == IF out.op = "_forward" THEN out.r ELSE out.r.fwd

\* The _backward whose result is in out, run directly or by loss.
HasBackward == out.op = "_backward" \/ (out.op = "loss" /\ out.r.fwd.err = "none")

TheBackward == IF out.op = "_backward" THEN out.r ELSE out.r.bwd

Layers == 0 .. (self.n_layers - 1)

\* The name of what layer i of a stack puts out, and of its last timestep
\* over a sequence of T steps.
LayerOutput(stack, i) == self.cell_type \o ":" \o Key("Wx", i, stack)

FinalStepOf(id, T) == id \o "[:," \o ToString(T - 1) \o ",:]"

\* C1: in every _forward call, decoder layer i is seeded with the final
\* timestep of what encoder layer i put out for the same batch, and every
\* encoder layer is seeded with zeros.
C1_ContextPairing ==
    (HasForward /\ TheForward.err = "none") =>
        /\ Len(TheForward.dec_h0s) = Cardinality(Layers)
        /\ Len(TheForward.enc_h0s) = Cardinality(Layers)
        /\ \A i \in Layers :
             /\ TheForward.enc_outs[i + 1].id = LayerOutput("enc", i)
             /\ TheForward.dec_h0s[i + 1] =
                  Tensor(FinalStepOf(LayerOutput("enc", i), NCols(out.src)),
                         <<NRows(out.src), self.hidden_dim>>)
             /\ TheForward.caches.dec_caches[i + 1].h0 = TheForward.dec_h0s[i + 1]
             /\ TheForward.caches.dec_caches[i + 1].Wx = Key("Wx", i, "dec")
             /\ TheForward.enc_h0s[i + 1] = Zeros(<<NRows(out.src), self.hidden_dim>>)
             /\ TheForward.caches.enc_caches[i + 1].h0 = Zeros(<<NRows(out.src), self.hidden_dim>>)

C1_Witness ==
    /\ out.op = "_forward" /\ out.err = "none"
    /\ self.n_layers = 2 /\ self.cell_type = "lstm" /\ NCols(out.src) = 2
    /\ out.r.dec_h0s[1].id = "lstm:Wx_0_enc[:,1,:]"
    /\ out.r.dec_h0s[2].id = "lstm:Wx_1_enc[:,1,:]"

\* The name of the initial-state gradient decoder layer i's backward returns.
DecoderInitGrad(i) == "dh0(" \o Key("Wx", i, "dec") \o ")"

\* The gradient that entered encoder layer i's backward.
EncoderIn(i) == TheBackward.enc_ins[self.n_layers - i]

\* C2: in every _backward call, slot i of the context-gradient buffer holds
\* exactly the initial-state gradient of decoder layer i, and it is added to
\* the final timestep of the gradient entering encoder layer i, once, and to
\* nothing else.
C2_ContextGradient ==
    (HasBackward /\ TheBackward.err = "none") =>
        /\ Len(TheBackward.dz) = Cardinality(Layers)
        /\ Len(TheBackward.enc_ins) = Cardinality(Layers)
        /\ \A i \in Layers :
             /\ TheBackward.dz[i + 1] = <<DecoderInitGrad(i)>>
             /\ EncoderIn(i).layer = i
             /\ EncoderIn(i).dh.adds =
                  <<[t |-> EncoderIn(i).dh.shape[2] - 1, terms |-> <<DecoderInitGrad(i)>>]>>

C2_Witness ==
    /\ out.op = "_backward" /\ out.err = "none"
    /\ self.n_layers = 2 /\ ~self.attention
    /\ out.r.enc_ins[2].layer = 0
    /\ out.r.enc_ins[2].dh.adds = <<[t |-> self.src_seq_len - 1, terms |-> <<"dh0(Wx_0_dec)">>]>>

\* C3: with n_layers >= 1, the gradients loss and _backward return have
\* exactly the keys of params.
C3_GradKeys ==
    (self.n_layers >= 1 /\ status = "ready") =>
        /\ (out.op = "loss" /\ out.err = "none") => DOMAIN out.r.grads = DOMAIN params
        /\ (out.op = "_backward" /\ out.err = "none") => DOMAIN out.r.grads = DOMAIN params

C3_Witness ==
    /\ out.op = "loss" /\ out.err = "none"
    /\ self.n_layers = 2 /\ self.attention
    /\ Cardinality(DOMAIN out.r.grads) = 16

\* C4: loss feeds columns 0..L-2 of trg to the forward pass, columns 1..L-1
\* and the mask (label # null_idx) to the loss function, and that function's
\* score gradient with the same forward pass's caches to the backward pass.
C4_TeacherForcing ==
    out.op = "loss" =>
        LET L      == NCols(out.trg)
            rows   == 1 .. NRows(out.trg)
            input  == [n \in rows |-> [t \in 1 .. (L - 1) |-> out.trg[n][t]]]
            labels == [n \in rows |-> [t \in 1 .. (L - 1) |-> out.trg[n][t + 1]]]
            mask   == [n \in rows |-> [t \in 1 .. (L - 1) |-> out.trg[n][t + 1] # self.null_idx]]
        IN  /\ out.r.fwd_args = [src |-> out.src, trg |-> input]
            /\ out.r.fwd.err = "none" =>
                 /\ out.r.fwd.caches.dec_embed_cache.x = input
                 /\ out.r.fwd.caches.enc_embed_cache.x = out.src
                 /\ out.r.loss_args = [x |-> out.r.fwd.scores, y |-> labels, mask |-> mask]
                 /\ out.r.bwd_args.dscores =
                      Grad("dxent(scores," \o MatStr(labels) \o "," \o MatStr(mask) \o ")",
                           out.r.fwd.scores.shape)
                 /\ out.r.bwd_args.caches = out.r.fwd.caches

C4_Witness ==
    /\ out.op = "loss" /\ out.err = "none"
    /\ out.trg = <<<<0, 1, 0>>>> /\ self.null_idx = 0
    /\ out.r.fwd_args.trg = <<<<0, 1>>>>
    /\ out.r.loss_args.y = <<<<1, 0>>>>
    /\ out.r.loss_args.mask = <<<<TRUE, FALSE>>>>

\* C5: W_out_dec has 2 * hidden_dim rows with attention and hidden_dim
\* without, and the tensor every _forward call hands to the output projection
\* is that wide.
C5_ProjectionWidth ==
    status = "ready" =>
        /\ params["W_out_dec"].shape[1] =
             (IF self.attention THEN 2 * self.hidden_dim ELSE self.hidden_dim)
        /\ (HasForward /\ TheForward.proj_in # NoTensor) =>
             TheForward.proj_in.shape[3] = params["W_out_dec"].shape[1]

\* The same with at least one layer.
C5_ProjectionWidthLayered ==
    self.n_layers >= 1 => C5_ProjectionWidth

\* C6: no call changes params, and each _backward call fills a mapping of its
\* own: a call that stops early leaves only what it had stored itself.
C6_ParamsReadOnly ==
    status = "ready" =>
        /\ params = Construct(self).params
        /\ (out.op = "_backward" /\ out.err = "IndexError") =>
             DOMAIN out.r.grads = {"W_out_dec", "b_out_dec"}

C6_Witness ==
    /\ out.op = "_backward" /\ out.err = "none" /\ out.nback = 0
    /\ self.n_layers = 1
    /\ params = Construct(self).params
    /\ DOMAIN out.r.grads = DOMAIN params

\* C7: a model with a non-positive n_layers is never constructed.
C7_NonPositiveLayersRejected ==
    self.n_layers <= 0 => status # "ready"

\* C8: an unsupported cell_type makes the constructor raise before any
\* per-layer or output-projection parameter exists, so no call is ever made
\* on a model with such a cell type.
C8_UnsupportedCellRejected ==
    /\ status = "ready" => self.cell_type \in Supported
    /\ (self.cell_type \notin Supported /\ status # "new") =>
         /\ status = "raised"
         /\ DOMAIN params = {"W_embed_enc", "W_embed_dec"}
    /\ out.op \in {"_forward", "_backward", "loss"} => self.cell_type \in Supported

C8_Witness ==
    /\ status = "raised" /\ self.cell_type = "gru"
    /\ out = [op |-> "__init__", err |-> "KeyError"]
    /\ DOMAIN params = {"W_embed_enc", "W_embed_dec"}

\* C9: a loss call whose src or trg length differs from the configured one
\* fails before any forward computation.
C9_LengthMismatchRejected ==
    (/\ out.op = "loss"
     /\ \/ NCols(out.src) # self.src_seq_len
        \/ NCols(out.trg) # self.trg_seq_len + 1) =>
        /\ out.err # "none"
        /\ out.r.fwd.scores = NoTensor

\* The order of the stages of one _backward call.
DecoderStages ==
    [k \in 1 .. self.n_layers |->
       [stage |-> "decoder", layer |-> self.n_layers - k,
        cache |-> Key("Wx", self.n_layers - k, "dec")]]

EncoderStages ==
    [k \in 1 .. self.n_layers |->
       [stage |-> "encoder", layer |-> self.n_layers - k,
        cache |-> Key("Wx", self.n_layers - k, "enc")]]

ExpectedLog ==
    <<Stage("output_projection")>>
    \o (IF self.attention THEN <<Stage("attention")>> ELSE <<>>)
    \o DecoderStages \o <<Stage("decoder_embedding")>>
    \o EncoderStages \o <<Stage("encoder_embedding")>>

\* The stages of a completed _backward run in order, each layer on the cache
\* _forward made for it, and both cache lists end empty.
BackwardOrder ==
    (HasBackward /\ TheBackward.err = "none") =>
        /\ TheBackward.log = ExpectedLog
        /\ TheBackward.enc_caches = <<>>
        /\ TheBackward.dec_caches = <<>>

\* C10: the stages of one _backward call run in order, each layer on the
\* cache _forward made for it, each cache once; both lists end empty and the
\* same cache tuple cannot drive a second _backward call.
C10_CachesSingleUse ==
    /\ BackwardOrder
    /\ (out.op = "_backward" /\ out.nback >= 1) => out.err # "none"

====
